---- MODULE Spec2Model ----
(***************************************************************************)
(* Eye-tracking data sources and distortions.                              *)
(*                                                                         *)
(*   src/eyedata.py      EyeTrackerDataSource  (stored fixations)          *)
(*   src/fakedata.py     EyeTrackerFakeDataSource (mixture of Gaussians)   *)
(*   src/corruptdata.py  ShiftEyeTrackingData, JerkEyeTrackingData         *)
(*                                                                         *)
(* A driver constructs one data source.  With the stored-data source it    *)
(* also builds the distortion nodes and executes them, in place, on the    *)
(* batch it pulled last; the generator is pulled and reset on its own.     *)
(*                                                                         *)
(* Numbers.  The code computes in floats.  Here a sample is <<t, x, y>>    *)
(* with t an integer and x, y exact rationals <<numerator, denominator>>   *)
(* in lowest terms; float rounding is not modelled.  The sources are       *)
(* Python 2 (print statement, eyedata.py:254): "/" between two ints is     *)
(* floor division, between floats it is the exact quotient.                *)
(*                                                                         *)
(* Errors.  A call that raises leaves the name of the exception in err     *)
(* and whatever it had already assigned in the state.                      *)
(***************************************************************************)
EXTENDS Integers, Sequences, FiniteSets, TLC

VARIABLES
    kind,      \* the source the driver holds: "none", "real" or "fake"
    eye,       \* EyeTrackerDataSource.eye
    rows,      \* the store's rows for the selected trial/person/eye
    _t,        \* real source: rows already drawn; generator: time cursor
    cfg,       \* the generator's configuration (attributes set by __init__)
    tape,      \* the seeded random stream, as far as it has been drawn
    rpos,      \* how many entries of the stream the RandomState has consumed
    batch,     \* the batch returned by the last samples(n)
    view,      \* TRUE when batch is a view onto rows, FALSE when it is a copy
    off,       \* the position in rows where batch starts
    shift,     \* the ShiftEyeTrackingData node
    jerk,      \* the JerkEyeTrackingData node
    err,       \* the exception raised by the last call, or "none"
    call,      \* history: the last call and its arguments
    pre,       \* history: the batch before the last _execute
    base,      \* history: the batch as the source returned it
    applied,   \* history: the _execute calls completed on the batch
    draws,     \* history: per sample of the batch, how _sample produced it
    pulled,    \* history: the samples pulled since the last reset
    first,     \* history: the samples pulled before the first reset
    wasReset   \* history: whether reset() was ever called

vars == <<kind, eye, rows, _t, cfg, tape, rpos, batch, view, off, shift, jerk,
          err, call, pre, base, applied, draws, pulled, first, wasReset>>

(***************************************************************************)
(* Bounds of the model.                                                    *)
(***************************************************************************)
MaxN == 2          \* samples(n) is called with n in 1..MaxN
MaxDraws == 8      \* calls on the random stream between construction and the end

(***************************************************************************)
(* Column constants.                                                       *)
(***************************************************************************)
T == 0
X == 1
Y == 2

Col(s, c) == s[c + 1]

(***************************************************************************)
(* Exact arithmetic standing for the float arithmetic of the code.         *)
(***************************************************************************)
Abs(a) == IF a < 0 THEN -a ELSE a

Min(a, b) == IF a < b THEN a ELSE b

RECURSIVE GCD(_, _)
GCD(a, b) == IF b = 0 THEN a ELSE GCD(b, a % b)

Rat(n, d) == LET g == GCD(Abs(n), d) IN <<n \div g, d \div g>>

R(n) == <<n, 1>>

RAdd(a, b) == Rat(a[1] * b[2] + b[1] * a[2], a[2] * b[2])

RMul(a, b) == Rat(a[1] * b[1], a[2] * b[2])

RLt(a, b) == a[1] * b[2] < b[1] * a[2]

\* Python 2 "a / b" for b # 0: floor division of two ints, true division otherwise.
Divide(a, b, ints) == IF ints THEN R(a \div b) ELSE Rat(a, b)

(***************************************************************************)
(* The fixation store consumed by EyeTrackerDataSource: query(trial,       *)
(* person, eye) for the one trial and person of the model.                 *)
(***************************************************************************)
Row(t, x, y) == <<t, R(x), R(y)>>

Store ==
    [L |-> <<Row(0, 10, 20), Row(5, 11, 21), Row(10, 12, 22)>>,
     R |-> <<Row(15, 30, 40), Row(20, 31, 41)>>,
     X |-> <<>>]

query(e) == Store[e]

Eyes == {"None", "L", "R", "X"}

(***************************************************************************)
(* EyeTrackerDataSource (src/eyedata.py).                                  *)
(***************************************************************************)
\* __init__'s choice of the eye when none is given.
SelectEye(e) ==
    IF e = "None"
    THEN (IF Len(query("L")) > Len(query("R")) THEN "L" ELSE "R")
    ELSE e

\* data.query(...)[self._t : self._t + n], a Python slice: it stops at the end.
Slice(rws, p, n) == SubSeq(rws, p + 1, Min(p + n, Len(rws)))

\* _samples returning the slice itself instead of s.copy().
Real_samples_NoCopy(rws, p, n) == [s |-> Slice(rws, p, n), t |-> p + n, view |-> TRUE]

\* _samples forgetting self._t += n.
Real_samples_NoAdvance(rws, p, n) == [s |-> Slice(rws, p, n), t |-> p, view |-> FALSE]

\* _samples: the slice, the new position, and whether the result aliases the store.
Real_samples(rws, p, n) == [s |-> Slice(rws, p, n), t |-> p + n, view |-> FALSE]

\* DataSource.samples(n) of the datasource library, which is given
\* number_of_samples_max = len(d): a pull past the end raises.
Exhausted(rws, p, n) == n > Len(rws) - p

\* _reset: the position after a reset.
Real_reset(p) == 0

RealInit(e) ==
    /\ kind = "none"
    /\ call' = [op |-> "RealInit", args |-> <<e>>]
    /\ LET d == query(SelectEye(e)) IN
       IF Len(d) = 0
       THEN \* d[0, self.T] on an empty array
            /\ err' = "IndexError"
            /\ UNCHANGED <<kind, eye, rows, _t>>
       ELSE /\ err' = "none"
            /\ kind' = "real"
            /\ eye' = SelectEye(e)
            /\ rows' = d
            /\ _t' = Real_reset(_t)
    /\ UNCHANGED <<cfg, tape, rpos, batch, view, off, shift, jerk, pre, base,
                   applied, draws, pulled, first, wasReset>>

RealSamples(n) ==
    /\ kind = "real"
    /\ call' = [op |-> "RealSamples", args |-> <<n, _t>>]
    /\ IF Exhausted(rows, _t, n)
       THEN /\ err' = "ExhaustedError"
            /\ UNCHANGED <<_t, batch, view, off, base, applied, pulled>>
       ELSE LET r == Real_samples(rows, _t, n) IN
            /\ err' = "none"
            /\ _t' = r.t
            /\ batch' = r.s
            /\ view' = r.view
            /\ off' = _t
            /\ base' = r.s
            /\ applied' = <<>>
            /\ pulled' = pulled \o r.s
    /\ UNCHANGED <<kind, eye, rows, cfg, tape, rpos, shift, jerk, pre, draws, first,
                   wasReset>>

RealReset ==
    /\ kind = "real"
    /\ call' = [op |-> "RealReset", args |-> <<>>]
    /\ err' = "none"
    /\ _t' = Real_reset(_t)
    /\ pulled' = <<>>
    /\ first' = IF wasReset THEN first ELSE pulled
    /\ wasReset' = TRUE
    /\ UNCHANGED <<kind, eye, rows, cfg, tape, rpos, batch, view, off, shift, jerk,
                   pre, base, applied, draws>>

(***************************************************************************)
(* ShiftEyeTrackingData and JerkEyeTrackingData (src/corruptdata.py).      *)
(***************************************************************************)
NoShift == [made |-> FALSE, shift_x |-> 0, shift_y |-> 0, t0 |-> 0, t1 |-> 0,
            ints |-> TRUE]

NoJerk == [made |-> FALSE, jerk_at |-> 0, jerk_x |-> 0, jerk_y |-> 0]

ShiftXs == {0, 3}
ShiftYs == {0, -2}
ShiftT0s == {5}
ShiftT1s == {0, 5, 15}
JerkAts == {10}
JerkXs == {0, 3}
JerkYs == {0, -2}

\* The assertion that ends ShiftEyeTrackingData.__init__.
Shift_assert(t0, t1) == t0 <= t1

ShiftInit(sx, sy, t0, t1, ints) ==
    /\ kind = "real"
    /\ ~shift.made
    /\ call' = [op |-> "ShiftInit", args |-> <<sx, sy, t0, t1, ints>>]
    /\ IF Shift_assert(t0, t1)
       THEN /\ err' = "none"
            /\ shift' = [made |-> TRUE, shift_x |-> sx, shift_y |-> sy,
                         t0 |-> t0, t1 |-> t1, ints |-> ints]
       ELSE /\ err' = "AssertionError"
            /\ UNCHANGED shift
    /\ UNCHANGED <<kind, eye, rows, _t, cfg, tape, rpos, batch, view, off, jerk,
                   pre, base, applied, draws, pulled, first, wasReset>>

JerkInit(at, jx, jy) ==
    /\ kind = "real"
    /\ ~jerk.made
    /\ call' = [op |-> "JerkInit", args |-> <<at, jx, jy>>]
    /\ err' = "none"
    /\ jerk' = [made |-> TRUE, jerk_at |-> at, jerk_x |-> jx, jerk_y |-> jy]
    /\ UNCHANGED <<kind, eye, rows, _t, cfg, tape, rpos, batch, view, off, shift,
                   pre, base, applied, draws, pulled, first, wasReset>>

\* S.where(ts > self.t0)
Shift_where(node, data) == {i \in DOMAIN data : Col(data[i], T) > node.t0}

\* _execute without S.minimum(..., dt_max): the offset keeps growing after t1.
Shift_execute_NoClamp(node, data) ==
    LET slope_x == Divide(node.shift_x, node.t1 - node.t0, node.ints)
        slope_y == Divide(node.shift_y, node.t1 - node.t0, node.ints)
        where == Shift_where(node, data)
        ramp(i) == R(Col(data[i], T) - node.t0)
    IN [i \in DOMAIN data |->
          IF i \in where
          THEN <<Col(data[i], T),
                 IF node.shift_x # 0
                 THEN RAdd(Col(data[i], X), RMul(ramp(i), slope_x))
                 ELSE Col(data[i], X),
                 IF node.shift_y # 0
                 THEN RAdd(Col(data[i], Y), RMul(ramp(i), slope_y))
                 ELSE Col(data[i], Y)>>
          ELSE data[i]]

\* ShiftEyeTrackingData._execute for t1 # t0.
Shift_execute(node, data) ==
    LET slope_x == Divide(node.shift_x, node.t1 - node.t0, node.ints)
        slope_y == Divide(node.shift_y, node.t1 - node.t0, node.ints)
        where == Shift_where(node, data)
        dt_max == node.t1 - node.t0
        ramp(i) == R(Min(Col(data[i], T) - node.t0, dt_max))
    IN [i \in DOMAIN data |->
          IF i \in where
          THEN <<Col(data[i], T),
                 IF node.shift_x # 0
                 THEN RAdd(Col(data[i], X), RMul(ramp(i), slope_x))
                 ELSE Col(data[i], X),
                 IF node.shift_y # 0
                 THEN RAdd(Col(data[i], Y), RMul(ramp(i), slope_y))
                 ELSE Col(data[i], Y)>>
          ELSE data[i]]

\* S.where with ">" where the code has ">=".
Jerk_where_Strict(node, data) == {i \in DOMAIN data : Col(data[i], T) > node.jerk_at}

\* S.where(data[:,T] >= self.jerk_at)
Jerk_where(node, data) == {i \in DOMAIN data : Col(data[i], T) >= node.jerk_at}

\* _execute adding jerk_x to column T instead of column X.
Jerk_execute_WrongColumn(node, data) ==
    LET where == Jerk_where(node, data)
    IN [i \in DOMAIN data |->
          IF i \in where
          THEN <<IF node.jerk_x # 0
                 THEN Col(data[i], T) + node.jerk_x
                 ELSE Col(data[i], T),
                 Col(data[i], X),
                 IF node.jerk_y # 0
                 THEN RAdd(Col(data[i], Y), R(node.jerk_y))
                 ELSE Col(data[i], Y)>>
          ELSE data[i]]

\* JerkEyeTrackingData._execute
Jerk_execute(node, data) ==
    LET where == Jerk_where(node, data)
    IN [i \in DOMAIN data |->
          IF i \in where
          THEN <<Col(data[i], T),
                 IF node.jerk_x # 0
                 THEN RAdd(Col(data[i], X), R(node.jerk_x))
                 ELSE Col(data[i], X),
                 IF node.jerk_y # 0
                 THEN RAdd(Col(data[i], Y), R(node.jerk_y))
                 ELSE Col(data[i], Y)>>
          ELSE data[i]]

\* An in-place write of the batch reaches the store when the batch is a view.
WriteThrough(rws, isView, o, new) ==
    IF isView
    THEN [i \in DOMAIN rws |->
            IF o < i /\ i <= o + Len(new) THEN new[i - o] ELSE rws[i]]
    ELSE rws

\* The driver passes a batch through each node at most once.
Ran(name) == \E k \in DOMAIN applied : applied[k] = name

ShiftExecute ==
    /\ kind = "real"
    /\ shift.made
    /\ batch # <<>>
    /\ ~Ran("Shift")
    /\ call' = [op |-> "ShiftExecute", args |-> <<>>]
    /\ pre' = batch
    /\ IF shift.t1 - shift.t0 = 0
       THEN \* self.shift_x / (self.t1-self.t0)
            /\ err' = "ZeroDivisionError"
            /\ UNCHANGED <<batch, rows, applied>>
       ELSE /\ err' = "none"
            /\ batch' = Shift_execute(shift, batch)
            /\ rows' = WriteThrough(rows, view, off, batch')
            /\ applied' = Append(applied, "Shift")
    /\ UNCHANGED <<kind, eye, _t, cfg, tape, rpos, view, off, shift, jerk, base,
                   draws, pulled, first, wasReset>>

JerkExecute ==
    /\ kind = "real"
    /\ jerk.made
    /\ batch # <<>>
    /\ ~Ran("Jerk")
    /\ call' = [op |-> "JerkExecute", args |-> <<>>]
    /\ pre' = batch
    /\ err' = "none"
    /\ batch' = Jerk_execute(jerk, batch)
    /\ rows' = WriteThrough(rows, view, off, batch')
    /\ applied' = Append(applied, "Jerk")
    /\ UNCHANGED <<kind, eye, _t, cfg, tape, rpos, view, off, shift, jerk, base,
                   draws, pulled, first, wasReset>>

(***************************************************************************)
(* EyeTrackerFakeDataSource (src/fakedata.py).                             *)
(*                                                                         *)
(* The RandomState of SeededDataSource is a stream fixed by the seed.  It  *)
(* is revealed as it is drawn: tape holds the entries drawn so far, one    *)
(* per call on self.random, and rpos the number consumed since the last    *)
(* reseeding; a call at the end of the tape may get any value of its       *)
(* distribution, a call before the end replays the tape.                   *)
(*                                                                         *)
(* A covariance matrix is diagonal here, given by its two standard         *)
(* deviations <<cx, cy>>; the identity matrix is <<1, 1>>.                 *)
(***************************************************************************)
Default_dt == 200
Default_sigma_dt == 50

NoCfg == [locs |-> <<>>, sigmas |-> <<>>, cs |-> <<>>, covariances |-> <<>>,
          ranges |-> <<>>, dt |-> 0, sigma_dt |-> 0, urfp |-> <<0, 1>>]

P1 == <<1, 1>>
P2 == <<5, 1>>
LocsSet == {<<>>, <<P1>>, <<P1, P2>>}
SigmasSet == {<<>>, <<2>>, <<1, 1, 1>>}
BaseProbsSet == {<<>>, <<1, 3>>, <<0, 2>>, <<1, 1, 1>>}
CovsSet == {<<>>, <<<<1, 2>>>>}
RangesSet == {<<>>, <<<<1, 6>>, <<0, 3>>>>}
UrfpSet == {<<1, 10>>, <<1, 1>>}

\* The values a call on the random stream may return: standard-normal
\* quantiles (whole numbers z/1), uniform quantiles in [0, 1) for the two
\* decisions and for the coordinates of a uniform fixation, and pairs of
\* standard-normal quantiles for the two axes of multivariate_normal.
NormalZ == {<<-5, 1>>, <<1, 1>>}
UniformU == {<<0, 1>>, <<1, 2>>}
UniformXY == {<<1, 2>>}
MvnZ == {<<-1, 0>>, <<0, -1>>, <<1, 0>>}

RECURSIVE SeqMax(_)
SeqMax(s) == IF Len(s) = 1 THEN s[1]
             ELSE LET m == SeqMax(Tail(s)) IN IF s[1] > m THEN s[1] ELSE m

RECURSIVE SeqMin(_)
SeqMin(s) == IF Len(s) = 1 THEN s[1]
             ELSE LET m == SeqMin(Tail(s)) IN IF s[1] < m THEN s[1] ELSE m

\* S.cumsum(base_probabilities)
RECURSIVE cumsum(_)
cumsum(s) == IF s = <<>> THEN <<>>
             ELSE LET c == cumsum(SubSeq(s, 1, Len(s) - 1))
                  IN Append(c, (IF c = <<>> THEN 0 ELSE c[Len(c)]) + s[Len(s)])

\* S.arange(n)+1
arange1(n) == [i \in 1..n |-> i]

\* __init__ without its length assertions.
Fake_assert_Missing(n, given) == TRUE

\* The length assertions of __init__ on sigmas, base_probabilities, covariances.
Fake_assert(n, given) == Len(given) = n

\* The ranges derived from the locations when none are given.
DefaultRanges(locs, sigmas) ==
    LET margin == SeqMax(sigmas) * 4
        xs == [i \in DOMAIN locs |-> locs[i][1]]
        ys == [i \in DOMAIN locs |-> locs[i][2]]
    IN <<<<SeqMin(xs) - margin, SeqMax(xs) + margin>>,
         <<SeqMin(ys) - margin, SeqMax(ys) + margin>>>>

\* _reset: the time cursor after a reset.
Fake_reset(t) == 0

\* SeededDataSource._reset of the datasource library: the RandomState is made
\* again from the seed, so the stream restarts.
Reseed(p) == 0

\* __init__: the error it raises, or "none".
Fake_init_err(locs, sigmas, bps, covs, ranges) ==
    LET n == Len(locs) IN
    IF sigmas # <<>> /\ ~Fake_assert(n, sigmas) THEN "AssertionError"
    ELSE IF bps # <<>> /\ ~Fake_assert(n, bps) THEN "AssertionError"
    ELSE IF covs # <<>> /\ ~Fake_assert(n, covs) THEN "AssertionError"
    ELSE IF ranges = <<>> /\ n = 0 THEN "ValueError"   \* max([]) of no sigmas
    ELSE IF ranges # <<>> /\ ~(Len(ranges) = 2 /\ Len(ranges[1]) = 2)
    THEN "AssertionError"
    ELSE "none"

\* __init__: the attributes it sets when it raises nothing.
Fake_init_cfg(locs, sigmas, bps, covs, ranges, urfp) ==
    LET n == Len(locs)
        sg == IF sigmas = <<>> THEN [i \in 1..n |-> 1] ELSE sigmas
    IN [locs |-> locs,
        sigmas |-> sg,
        cs |-> IF bps = <<>> THEN arange1(n) ELSE cumsum(bps),
        covariances |-> IF covs = <<>> THEN [i \in 1..n |-> <<1, 1>>] ELSE covs,
        ranges |-> IF ranges = <<>> THEN DefaultRanges(locs, sg) ELSE ranges,
        dt |-> Default_dt,
        sigma_dt |-> Default_sigma_dt,
        urfp |-> urfp]

FakeInit(locs, sigmas, bps, covs, ranges, urfp) ==
    /\ kind = "none"
    /\ call' = [op |-> "FakeInit", args |-> <<locs, sigmas, bps, covs, ranges, urfp>>]
    /\ err' = Fake_init_err(locs, sigmas, bps, covs, ranges)
    /\ IF err' = "none"
       THEN /\ kind' = "fake"
            /\ cfg' = Fake_init_cfg(locs, sigmas, bps, covs, ranges, urfp)
            /\ _t' = Fake_reset(_t)
            /\ rpos' = Reseed(rpos)
       ELSE UNCHANGED <<kind, cfg, _t, rpos>>
    /\ UNCHANGED <<eye, rows, tape, batch, view, off, shift, jerk, pre, base,
                   applied, draws, pulled, first, wasReset>>

\* One call on self.random at stream position p.
Draw(tp, p, vals) ==
    IF p < Len(tp) THEN {[v |-> tp[p + 1], tape |-> tp]}
    ELSE IF Len(tp) < MaxDraws THEN {[v |-> v, tape |-> Append(tp, v)] : v \in vals}
    ELSE {}

\* random.normal(loc, scale) at the whole quantile z
normal(loc, scale, z) == loc + scale * (z[1] \div z[2])

\* random.uniform(low, high) at the quantile u
uniform(low, high, u) == RAdd(R(low), RMul(R(high - low), u))

\* dt without S.absolute.
Fake_dt_Signed(c, z) == normal(c.dt, c.sigma_dt, z)

\* dt = S.absolute(self.random.normal(loc=self.dt, scale=self.sigma_dt))
Fake_dt(c, z) == Abs(normal(c.dt, c.sigma_dt, z))

\* The scan with ">=" where the code has ">".
RECURSIVE Scan_NonStrict(_, _, _)
Scan_NonStrict(cs, r, i) ==
    IF ~RLt(R(cs[i]), r) THEN i
    ELSE IF i = Len(cs) THEN i
    ELSE Scan_NonStrict(cs, r, i + 1)

\* for i in range(len(self.locs)): if self._cs[i] > r: break
\* (indices are 1-based here: i stands for the code's i - 1)
RECURSIVE Scan(_, _, _)
Scan(cs, r, i) ==
    IF RLt(r, R(cs[i])) THEN i
    ELSE IF i = Len(cs) THEN i
    ELSE Scan(cs, r, i + 1)

\* random.multivariate_normal(mean=locs[i], cov=sigmas[i]**2 * covariances[i])
mvn(c, i, z) ==
    <<R(c.locs[i][1] + c.sigmas[i] * c.covariances[i][1] * z[1]),
      R(c.locs[i][2] + c.sigmas[i] * c.covariances[i][2] * z[2])>>

\* The range test with "<=" where the code has "<".
Accept_Closed(ranges, pt) ==
    /\ ~RLt(pt[1], R(ranges[1][1])) /\ ~RLt(R(ranges[1][2]), pt[1])
    /\ ~RLt(pt[2], R(ranges[2][1])) /\ ~RLt(R(ranges[2][2]), pt[2])

\* not(xr[0] < x < xr[1]): continue;  not(yr[0] < y < yr[1]): continue;  break
Accept(ranges, pt) ==
    /\ RLt(R(ranges[1][1]), pt[1]) /\ RLt(pt[1], R(ranges[1][2]))
    /\ RLt(R(ranges[2][1]), pt[2]) /\ RLt(pt[2], R(ranges[2][2]))

\* The rejection loop of _sample, from stream position p on.
RECURSIVE Reject(_, _, _, _, _, _, _)
Reject(c, t, tp, p, r, i, cands) ==
    UNION { LET pt == mvn(c, i, z.v)
                seen == Append(cands, pt)
            IN IF Accept(c.ranges, pt)
               THEN {[t |-> t, tape |-> z.tape, rpos |-> p + 1, err |-> "none",
                      sample |-> <<t, pt[1], pt[2]>>,
                      how |-> [uniform |-> FALSE, r |-> r, i |-> i, cands |-> seen]]}
               ELSE Reject(c, t, z.tape, p + 1, r, i, seen)
          : z \in Draw(tp, p, MvnZ) }

\* _sample: every way it can end from cursor t and stream position p.
Fake_sample(c, t, tp, p) ==
    UNION { LET t1 == t + Fake_dt(c, d.v) IN
            UNION { IF RLt(u.v, c.urfp)
                    THEN UNION { { [t |-> t1, tape |-> dy.tape, rpos |-> p + 4,
                                    err |-> "none",
                                    sample |-> <<t1,
                                        uniform(c.ranges[1][1], c.ranges[1][2], dx.v),
                                        uniform(c.ranges[2][1], c.ranges[2][2], dy.v)>>,
                                    how |-> [uniform |-> TRUE, r |-> R(0), i |-> 0, cands |-> <<>>]]
                                   : dy \in Draw(dx.tape, p + 3, UniformXY) }
                                 : dx \in Draw(u.tape, p + 2, UniformXY) }
                    ELSE IF Len(c.cs) = 0
                    THEN \* self._cs[-1] of an empty table
                         {[t |-> t1, tape |-> u.tape, rpos |-> p + 2,
                           err |-> "IndexError", sample |-> <<>>,
                           how |-> [uniform |-> FALSE, r |-> R(0), i |-> 0, cands |-> <<>>]]}
                    ELSE UNION { LET r == uniform(0, c.cs[Len(c.cs)], q.v)
                                 IN Reject(c, t1, q.tape, p + 3, r,
                                           Scan(c.cs, r, 1), <<>>)
                                 : q \in Draw(u.tape, p + 2, UniformU) }
                  : u \in Draw(d.tape, p + 1, UniformU) }
          : d \in Draw(tp, p, NormalZ) }

\* samples(n) of the datasource library: _sample called n times, the results
\* stacked; an exception ends the call and the samples made so far are lost.
RECURSIVE Fake_samples(_, _, _, _, _)
Fake_samples(c, t, tp, p, n) ==
    IF n = 0
    THEN {[t |-> t, tape |-> tp, rpos |-> p, err |-> "none", s |-> <<>>, hows |-> <<>>]}
    ELSE UNION { IF o.err # "none"
                 THEN {[t |-> o.t, tape |-> o.tape, rpos |-> o.rpos, err |-> o.err,
                        s |-> <<>>, hows |-> <<>>]}
                 ELSE { [t |-> q.t, tape |-> q.tape, rpos |-> q.rpos, err |-> q.err,
                         s |-> IF q.err = "none" THEN <<o.sample>> \o q.s ELSE <<>>,
                         hows |-> IF q.err = "none" THEN <<o.how>> \o q.hows ELSE <<>>]
                        : q \in Fake_samples(c, o.t, o.tape, o.rpos, n - 1) }
               : o \in Fake_sample(c, t, tp, p) }

FakeSamples(n) ==
    /\ kind = "fake"
    /\ call' = [op |-> "FakeSamples", args |-> <<n, _t>>]
    /\ \E o \in Fake_samples(cfg, _t, tape, rpos, n) :
          /\ err' = o.err
          /\ _t' = o.t
          /\ tape' = o.tape
          /\ rpos' = o.rpos
          /\ IF o.err = "none"
             THEN /\ batch' = o.s
                  /\ base' = o.s
                  /\ draws' = o.hows
                  /\ pulled' = pulled \o o.s
             ELSE UNCHANGED <<batch, base, draws, pulled>>
    /\ UNCHANGED <<kind, eye, rows, cfg, view, off, shift, jerk, pre, applied,
                   first, wasReset>>

FakeReset ==
    /\ kind = "fake"
    /\ call' = [op |-> "FakeReset", args |-> <<>>]
    /\ err' = "none"
    /\ rpos' = Reseed(rpos)
    /\ _t' = Fake_reset(_t)
    /\ pulled' = <<>>
    /\ first' = IF wasReset THEN first ELSE pulled
    /\ wasReset' = TRUE
    /\ UNCHANGED <<kind, eye, rows, cfg, tape, batch, view, off, shift, jerk, pre,
                   base, applied, draws>>

(***************************************************************************)
(* The driver.                                                             *)
(***************************************************************************)
Init ==
    /\ kind = "none"
    /\ eye = "None"
    /\ rows = <<>>
    /\ _t = 0
    /\ cfg = NoCfg
    /\ tape = <<>>
    /\ rpos = 0
    /\ batch = <<>>
    /\ view = FALSE
    /\ off = 0
    /\ shift = NoShift
    /\ jerk = NoJerk
    /\ err = "none"
    /\ call = [op |-> "none", args |-> <<>>]
    /\ pre = <<>>
    /\ base = <<>>
    /\ applied = <<>>
    /\ draws = <<>>
    /\ pulled = <<>>
    /\ first = <<>>
    /\ wasReset = FALSE

Next ==
    \/ \E e \in Eyes : RealInit(e)
    \/ \E n \in 1..MaxN : RealSamples(n)
    \/ RealReset
    \/ \E sx \in ShiftXs, sy \in ShiftYs, t0 \in ShiftT0s, t1 \in ShiftT1s,
          ints \in BOOLEAN : ShiftInit(sx, sy, t0, t1, ints)
    \/ \E at \in JerkAts, jx \in JerkXs, jy \in JerkYs : JerkInit(at, jx, jy)
    \/ ShiftExecute
    \/ JerkExecute
    \/ \E locs \in LocsSet, sigmas \in SigmasSet, bps \in BaseProbsSet,
          covs \in CovsSet, ranges \in RangesSet, urfp \in UrfpSet :
          FakeInit(locs, sigmas, bps, covs, ranges, urfp)
    \/ \E n \in 1..MaxN : FakeSamples(n)
    \/ FakeReset

Spec == Init /\ [][Next]_vars

(***************************************************************************)
(* Properties.                                                             *)
(***************************************************************************)
\* The quotient q of a by b > 0 rounded down: q * b <= a < (q + 1) * b.
FloorQ(a, b) == CHOOSE q \in (-Abs(a) - 1)..(Abs(a) + 1) : q * b <= a /\ a < (q + 1) * b

\* The time a sample at t has spent in the Shift window.
Elapsed(t) == Min(t - shift.t0, shift.t1 - shift.t0)

\* The offset a Shift of total amount s reaches at time t, for t0 < t1:
\* s / (t1 - t0) per unit of time, the quotient rounded down for int parameters.
RampOffset(s, t) ==
    IF t < shift.t0 THEN R(0)
    ELSE IF shift.ints THEN R(Elapsed(t) * FloorQ(s, shift.t1 - shift.t0))
    ELSE Rat(Elapsed(t) * s, shift.t1 - shift.t0)

\* The offset of a Jerk of amount j at time t.
StepOffset(j, t) == IF t >= jerk.jerk_at THEN R(j) ELSE R(0)

ShiftDone == call.op = "ShiftExecute" /\ err = "none"

JerkDone == call.op = "JerkExecute" /\ err = "none"

\* C1 as stated: after a Shift completes, a sample with t < start_at_t is
\* unchanged and a sample with t >= start_at_t has x increased by
\* elapsed * shift_x and y by elapsed * shift_y, where
\* elapsed = min(t - start_at_t, end_at_t - start_at_t).
C1_ShiftRatePerTime ==
    ShiftDone =>
        /\ Len(batch) = Len(pre)
        /\ \A i \in DOMAIN pre :
             LET t == Col(pre[i], T) IN
             IF t < shift.t0
             THEN batch[i] = pre[i]
             ELSE /\ Col(batch[i], X) = RAdd(Col(pre[i], X), R(Elapsed(t) * shift.shift_x))
                  /\ Col(batch[i], Y) = RAdd(Col(pre[i], Y), R(Elapsed(t) * shift.shift_y))

\* C1 amended: with start_at_t < end_at_t a Shift completes; a sample with
\* t < start_at_t is unchanged, and a sample with t >= start_at_t has x
\* increased by elapsed * (shift_x / (end_at_t - start_at_t)) and y by
\* elapsed * (shift_y / (end_at_t - start_at_t)), the quotient rounded down
\* when the parameters are ints, so that from end_at_t on the offset is
\* shift_x and shift_y for float parameters.  With start_at_t = end_at_t the
\* call raises ZeroDivisionError and leaves the batch as it was.
C1_ShiftRamp ==
    call.op = "ShiftExecute" =>
        IF shift.t0 = shift.t1
        THEN err = "ZeroDivisionError" /\ batch = pre
        ELSE /\ err = "none"
             /\ Len(batch) = Len(pre)
             /\ \A i \in DOMAIN pre :
                  LET t == Col(pre[i], T) IN
                  /\ t < shift.t0 => batch[i] = pre[i]
                  /\ Col(batch[i], X) = RAdd(Col(pre[i], X), RampOffset(shift.shift_x, t))
                  /\ Col(batch[i], Y) = RAdd(Col(pre[i], Y), RampOffset(shift.shift_y, t))
                  /\ (t >= shift.t1 /\ ~shift.ints) =>
                         /\ Col(batch[i], X) = RAdd(Col(pre[i], X), R(shift.shift_x))
                         /\ Col(batch[i], Y) = RAdd(Col(pre[i], Y), R(shift.shift_y))

\* A Shift with float parameters and one with int parameters has each acted
\* on a sample past the end of its window, and on one inside it.
C1_Witness ==
    /\ ShiftDone
    /\ shift.shift_x # 0
    /\ shift.shift_y # 0
    /\ \E i \in DOMAIN pre : Col(pre[i], T) > shift.t1 /\ batch[i] # pre[i]
    /\ \E i \in DOMAIN pre : Col(pre[i], T) = shift.t1

\* C2: after a Jerk, every sample with t >= jerk_at_t has x increased by
\* exactly jerk_x and y by exactly jerk_y, and every sample with t < jerk_at_t
\* is unchanged; the call raises nothing.
C2_JerkStep ==
    call.op = "JerkExecute" =>
        /\ err = "none"
        /\ Len(batch) = Len(pre)
        /\ \A i \in DOMAIN pre :
             LET t == Col(pre[i], T) IN
             IF t >= jerk.jerk_at
             THEN batch[i] = <<t, RAdd(Col(pre[i], X), R(jerk.jerk_x)),
                                  RAdd(Col(pre[i], Y), R(jerk.jerk_y))>>
             ELSE batch[i] = pre[i]

\* A Jerk of (3, -2) at t = 10 has acted on a batch with a sample before 10,
\* left alone, and a sample at exactly 10, moved.
C2_Witness ==
    /\ JerkDone
    /\ jerk.jerk_x = 3 /\ jerk.jerk_y = -2 /\ jerk.jerk_at = 10
    /\ \E i, j \in DOMAIN pre :
          /\ Col(pre[i], T) < jerk.jerk_at /\ batch[i] = pre[i]
          /\ Col(pre[j], T) = jerk.jerk_at
          /\ batch[j] = <<10, RAdd(Col(pre[j], X), R(3)), RAdd(Col(pre[j], Y), R(-2))>>

\* C3: Shift and Jerk leave the t column, the number and the order of the
\* samples of a batch as they are; after the distortions completed on a batch,
\* in either order, every sample has x, y equal to the x, y the source returned
\* plus the Shift offset plus the Jerk offset, each computed from the sample's
\* original t; executing the two nodes on the returned batch in the two orders
\* gives the same batch.
C3_Composable ==
    (kind = "real" /\ batch # <<>>) =>
        /\ Len(batch) = Len(base)
        /\ \A i \in DOMAIN base :
             LET t == Col(base[i], T) IN
             /\ Col(batch[i], T) = t
             /\ Col(batch[i], X) =
                  RAdd(RAdd(Col(base[i], X),
                            IF Ran("Shift") THEN RampOffset(shift.shift_x, t) ELSE R(0)),
                       IF Ran("Jerk") THEN StepOffset(jerk.jerk_x, t) ELSE R(0))
             /\ Col(batch[i], Y) =
                  RAdd(RAdd(Col(base[i], Y),
                            IF Ran("Shift") THEN RampOffset(shift.shift_y, t) ELSE R(0)),
                       IF Ran("Jerk") THEN StepOffset(jerk.jerk_y, t) ELSE R(0))
        /\ (shift.made /\ jerk.made /\ shift.t0 < shift.t1) =>
               Jerk_execute(jerk, Shift_execute(shift, base))
                   = Shift_execute(shift, Jerk_execute(jerk, base))

\* Jerk then Shift have both completed on a batch with a sample that both move.
C3_Witness ==
    /\ applied = <<"Jerk", "Shift">>
    /\ shift.shift_x # 0 /\ jerk.jerk_x # 0
    /\ \E i \in DOMAIN base :
          /\ Col(base[i], T) > shift.t0
          /\ Col(base[i], T) >= jerk.jerk_at
          /\ Col(batch[i], X) # RAdd(Col(base[i], X), StepOffset(jerk.jerk_x, Col(base[i], T)))
          /\ Col(batch[i], X) # RAdd(Col(base[i], X), RampOffset(shift.shift_x, Col(base[i], T)))

NonDecreasing(seq) ==
    \A i, j \in DOMAIN seq : i < j => Col(seq[i], T) <= Col(seq[j], T)

\* C4: the t values the generator produces between two resets never decrease,
\* within a batch and from one batch to the next, whichever branch made the
\* sample; the time cursor is never below the last t produced, and it moves
\* backwards only in a reset, which sets it to 0.
C4_MonotonicTime ==
    /\ [](kind = "fake" =>
            /\ NonDecreasing(pulled)
            /\ _t >= 0
            /\ pulled # <<>> => Col(pulled[Len(pulled)], T) <= _t
            /\ (call.op = "FakeSamples" /\ err = "none") => NonDecreasing(batch))
    /\ [][(kind = "fake" /\ kind' = "fake" /\ _t' < _t)
             => (call'.op = "FakeReset" /\ _t' = 0)]_vars

\* Two batches of one sample each were pulled without a reset between them,
\* the first sample after a negative draw of the time step.
C4_Witness ==
    /\ kind = "fake"
    /\ call.op = "FakeSamples" /\ err = "none"
    /\ Len(batch) = 1 /\ Len(pulled) = 2
    /\ ~draws[1].uniform
    /\ tape[1] = <<-5, 1>>
    /\ Col(pulled[1], T) = 50
    /\ Col(pulled[2], T) > 50

InClosed(ranges, pt) ==
    /\ ~RLt(pt[1], R(ranges[1][1])) /\ ~RLt(R(ranges[1][2]), pt[1])
    /\ ~RLt(pt[2], R(ranges[2][1])) /\ ~RLt(R(ranges[2][2]), pt[2])

InOpen(ranges, pt) ==
    /\ RLt(R(ranges[1][1]), pt[1]) /\ RLt(pt[1], R(ranges[1][2]))
    /\ RLt(R(ranges[2][1]), pt[2]) /\ RLt(pt[2], R(ranges[2][2]))

FakePulled == kind = "fake" /\ call.op = "FakeSamples" /\ err = "none"

\* C5 as stated: a mixture-drawn sample lies in the closed rectangle ranges
\* and is the first candidate that is not strictly outside it, so that a
\* candidate exactly on a boundary is accepted.
C5_ClosedBoundary ==
    FakePulled =>
        \A k \in DOMAIN draws :
            ~draws[k].uniform =>
                LET pt == <<Col(batch[k], X), Col(batch[k], Y)>>
                    cands == draws[k].cands
                IN /\ InClosed(cfg.ranges, pt)
                   /\ \E m \in DOMAIN cands :
                         /\ cands[m] = pt
                         /\ InClosed(cfg.ranges, cands[m])
                         /\ \A l \in 1..(m - 1) : ~InClosed(cfg.ranges, cands[l])

\* C5 amended: a mixture-drawn sample lies strictly inside the rectangle
\* ranges and is the first candidate that is strictly inside it: a candidate
\* is rejected and redrawn when it is outside or exactly on a boundary.
C5_OpenBoundary ==
    FakePulled =>
        \A k \in DOMAIN draws :
            ~draws[k].uniform =>
                LET pt == <<Col(batch[k], X), Col(batch[k], Y)>>
                    cands == draws[k].cands
                IN /\ InOpen(cfg.ranges, pt)
                   /\ cands # <<>>
                   /\ cands[Len(cands)] = pt
                   /\ \A l \in 1..(Len(cands) - 1) : ~InOpen(cfg.ranges, cands[l])

\* A mixture-drawn sample was returned after a candidate exactly on the
\* boundary and a candidate strictly outside were rejected.
C5_Witness ==
    /\ FakePulled
    /\ \E k \in DOMAIN draws :
          /\ ~draws[k].uniform
          /\ Len(draws[k].cands) = 3
          /\ \E l \in 1..2 : /\ InClosed(cfg.ranges, draws[k].cands[l])
                             /\ ~InOpen(cfg.ranges, draws[k].cands[l])
          /\ \E l \in 1..2 : ~InClosed(cfg.ranges, draws[k].cands[l])

\* C6: after a reset, the samples pulled are the samples that were pulled
\* first after construction, one for one, whatever was pulled and whatever
\* was distorted in place before the reset.
C6_ResetReproducible ==
    wasReset =>
        \A i \in 1..Min(Len(pulled), Len(first)) : pulled[i] = first[i]

\* The stored-data source was pulled, the batch was moved by a distortion,
\* and after a reset the same two samples were pulled again.
C6_Witness ==
    /\ kind = "real"
    /\ wasReset
    /\ call.op = "RealSamples" /\ err = "none"
    /\ Len(first) = 2
    /\ pulled = first
    /\ pre = first
    /\ applied = <<>>
    /\ jerk.made /\ jerk.jerk_x # 0
    /\ \E i \in DOMAIN pre : Col(pre[i], T) >= jerk.jerk_at

\* C7: on the stored-data source, samples(n) from position p with n <= N - p
\* returns the stored rows p .. p+n-1 in order and moves the position to p+n,
\* and with n > N - p raises ExhaustedError, returns nothing and leaves the
\* position; the batches pulled since a reset, joined, are the first rows of
\* the store; the generator never raises ExhaustedError.
C7_StreamProtocol ==
    /\ call.op = "RealSamples" =>
          LET n == call.args[1]
              p == call.args[2]
              N == Len(query(eye))
          IN IF n <= N - p
             THEN /\ err = "none"
                  /\ Len(batch) = n
                  /\ \A i \in 1..n : batch[i] = query(eye)[p + i]
                  /\ _t = p + n
             ELSE /\ err = "ExhaustedError"
                  /\ _t = p
    /\ kind = "real" => /\ _t <= Len(query(eye))
                        /\ pulled = SubSeq(query(eye), 1, _t)
    /\ kind = "fake" => err # "ExhaustedError"

\* A second batch was pulled from a position past the start.
C7_Witness ==
    /\ call.op = "RealSamples" /\ err = "none"
    /\ call.args[1] = 2
    /\ call.args[2] = 1
    /\ _t = 3
    /\ Len(pulled) = 3

MismatchedArgs(a) ==
    \/ a[2] # <<>> /\ Len(a[2]) # Len(a[1])
    \/ a[3] # <<>> /\ Len(a[3]) # Len(a[1])
    \/ a[4] # <<>> /\ Len(a[4]) # Len(a[1])

\* C8: constructing the generator with non-default sigmas, base_probabilities
\* or covariances whose length differs from len(locs), and constructing Shift
\* with start_at_t > end_at_t, fail in the constructor and leave no object;
\* no generator or Shift that exists has such parameters, and the assertion
\* error is raised by no other call.
C8_EagerValidation ==
    /\ (call.op = "FakeInit" /\ MismatchedArgs(call.args)) =>
           (err = "AssertionError" /\ kind = "none")
    /\ (call.op = "ShiftInit" /\ call.args[3] > call.args[4]) =>
           (err = "AssertionError" /\ ~shift.made)
    /\ kind = "fake" =>
           /\ Len(cfg.sigmas) = Len(cfg.locs)
           /\ Len(cfg.cs) = Len(cfg.locs)
           /\ Len(cfg.covariances) = Len(cfg.locs)
    /\ shift.made => shift.t0 <= shift.t1
    /\ err = "AssertionError" => call.op \in {"FakeInit", "ShiftInit"}

\* The generator was constructed with locs of length 2 and sigmas of length 3.
C8_Witness ==
    /\ call.op = "FakeInit"
    /\ Len(call.args[1]) = 2
    /\ Len(call.args[2]) = 3
    /\ err = "AssertionError"
    /\ kind = "none"

\* C9 as stated: a generator with no components exists only with
\* uniform_random_fixations_probability 1.0 and explicit ranges, and sampling
\* a constructed generator never fails for a reason of its configuration.
C9_ZeroComponents ==
    /\ (call.op = "FakeInit" /\ Len(call.args[1]) = 0 /\ err = "none") =>
           (call.args[6] = <<1, 1>> /\ call.args[5] # <<>>)
    /\ (kind = "fake" /\ Len(cfg.locs) = 0) => cfg.urfp = <<1, 1>>
    /\ (kind = "fake" /\ call.op = "FakeSamples") => err = "none"

\* C10 as stated: a Shift with an empty window, a Shift with both components
\* zero and a Jerk with both components zero execute without raising and
\* leave every t, x and y of the batch as it was; with one component zero
\* that axis is left as it was.
C10_SilentNoOps ==
    /\ (call.op = "ShiftExecute"
          /\ (shift.t0 = shift.t1 \/ (shift.shift_x = 0 /\ shift.shift_y = 0))) =>
           (err = "none" /\ batch = pre)
    /\ (call.op = "JerkExecute" /\ jerk.jerk_x = 0 /\ jerk.jerk_y = 0) =>
           (err = "none" /\ batch = pre)
    /\ (call.op = "ShiftExecute" /\ shift.shift_x = 0) =>
           (err = "none" /\ \A i \in DOMAIN pre : Col(batch[i], X) = Col(pre[i], X))
    /\ (call.op = "ShiftExecute" /\ shift.shift_y = 0) =>
           (err = "none" /\ \A i \in DOMAIN pre : Col(batch[i], Y) = Col(pre[i], Y))
    /\ (call.op = "JerkExecute" /\ jerk.jerk_x = 0) =>
           (err = "none" /\ \A i \in DOMAIN pre : Col(batch[i], X) = Col(pre[i], X))
    /\ (call.op = "JerkExecute" /\ jerk.jerk_y = 0) =>
           (err = "none" /\ \A i \in DOMAIN pre : Col(batch[i], Y) = Col(pre[i], Y))

\* The weight of component i as the cumulative table cs holds it.
Weight(cs, i) == cs[i] - (IF i = 1 THEN 0 ELSE cs[i - 1])

RECURSIVE SeqSum(_)
SeqSum(s) == IF s = <<>> THEN 0 ELSE s[1] + SeqSum(Tail(s))

\* C11: the cumulative table built at construction is non-decreasing, its
\* last entry is the total weight, and every weight is 1 when no
\* base_probabilities are given; and for every mixture-drawn sample whose draw
\* r has 0 <= r < total weight, the selected index i is a valid component
\* index, cumulative[i] > r, no smaller index has cumulative[j] > r, and the
\* weight of component i is not 0.
C11_ComponentSelection ==
    /\ (call.op = "FakeInit" /\ err = "none") =>
           LET bps == call.args[3]
               cs == cfg.cs
           IN /\ Len(cs) = Len(cfg.locs)
              /\ \A i \in DOMAIN cs : Weight(cs, i) >= 0
              /\ bps = <<>> => \A i \in DOMAIN cs : Weight(cs, i) = 1
              /\ bps # <<>> => \A i \in DOMAIN cs : Weight(cs, i) = bps[i]
              /\ cs # <<>> =>
                     cs[Len(cs)] = (IF bps = <<>> THEN Len(cfg.locs) ELSE SeqSum(bps))
    /\ FakePulled =>
           \A k \in DOMAIN draws :
               ~draws[k].uniform =>
                   LET cs == cfg.cs
                       r == draws[k].r
                       i == draws[k].i
                   IN (~RLt(r, R(0)) /\ RLt(r, R(cs[Len(cs)]))) =>
                          /\ i \in 1..Len(cfg.locs)
                          /\ RLt(r, R(cs[i]))
                          /\ \A j \in 1..(i - 1) : ~RLt(r, R(cs[j]))
                          /\ Weight(cs, i) > 0

\* A generator whose first component has weight 0 drew r = 0, which ties with
\* cumulative[1] = 0, and selected the second component.
C11_Witness ==
    /\ FakePulled
    /\ cfg.cs = <<0, 2>>
    /\ \E k \in DOMAIN draws :
          /\ ~draws[k].uniform
          /\ draws[k].r = R(0)
          /\ draws[k].i = 2

====
